---- MODULE Spec2Model ----
(***************************************************************************)
(* Model of the telemetry reconciliation pipeline of ProxyMonitor          *)
(* (src/src/components/proxy/ProxyMonitor.tsx), of the unauthorized        *)
(* signal path of request() / AdminAuthGuard, and of the debug-log feed    *)
(* of the useDebugConsole store (src/unnamed/part_003).                    *)
(*                                                                         *)
(* ProxyMonitor is modelled as one component instance.  Its hook state     *)
(* (logs, stats, totalCount, loading, pageSize) and its refs               *)
(* (pendingLogsRef, listenerSetupRef, isMountedRef) belong to the          *)
(* instance and survive an effect cleanup followed by a re-run of the      *)
(* effect (React.StrictMode, see src/unnamed/part_002:45); the locals of   *)
(* the mount effect (unlistenFn, updateTimeout, pollInterval) belong to    *)
(* one run of the effect and are kept per run in `mounts`.                 *)
(* State setters are applied in the step that calls them.                  *)
(***************************************************************************)
EXTENDS Integers, Sequences, FiniteSets, TLC

----------------------------------------------------------------------------
(* Bounds of the exploration *)

\* number of distinct log ids the backend emits
MaxIds == 3
\* number of runs of the mount effect (mount, StrictMode re-mount, ...)
MaxMounts == 2
\* number of loadData calls in flight at the same time
MaxPulls == 2
\* number of flush callbacks awaiting their stats/count refresh
MaxFlush == 1
\* largest count / stats value the backend reports
MaxCount == 1
\* number of keys of an args object passed to request()
MaxArgs == 2
\* number of calls of the debug console store in flight at the same time
MaxCalls == 2
\* number of 'log-event' listeners registered at the same time
MaxListeners == 2

\* the filter of a freshly mounted monitor: useState('')
NoFilter == ""
\* quickFilters: '' and one of the search filters
QuickFilters == {NoFilter, "gemini"}

(* The environment is explored in scenarios, chosen in Init and kept in    *)
(* `env`: many log ids pushed and pulled at the default page size,         *)
(* page-size changes with many ids pulled and one pushed, re-runs of the   *)
(* effect with one log id, overlapping calls and flushes with changing     *)
(* counts, filter changes, the clear button, and the debug console store   *)
(* without the monitor.  Every action is the same in all of them; env      *)
(* only limits what the environment (backend, user, React, platform)       *)
(* does.                                                                   *)
DataScenario ==
    [ids |-> MaxIds, pushed |-> MaxIds, mounts |-> 1, pulls |-> 1,
     flushes |-> 1, counts |-> 0, resize |-> FALSE, bridge |-> {TRUE},
     snapshots |-> FALSE, filters |-> {NoFilter}, clears |-> 0,
     calls |-> 0]
ResizeScenario ==
    [ids |-> MaxIds, pushed |-> 1, mounts |-> 1, pulls |-> 1,
     flushes |-> 1, counts |-> 0, resize |-> TRUE, bridge |-> BOOLEAN,
     snapshots |-> FALSE, filters |-> {NoFilter}, clears |-> 0,
     calls |-> 0]
LifecycleScenario ==
    [ids |-> 1, pushed |-> 1, mounts |-> MaxMounts, pulls |-> MaxPulls,
     flushes |-> 1, counts |-> 0, resize |-> FALSE, bridge |-> BOOLEAN,
     snapshots |-> FALSE, filters |-> {NoFilter}, clears |-> 0,
     calls |-> 0]
OverlapScenario ==
    [ids |-> 1, pushed |-> 1, mounts |-> 1, pulls |-> MaxPulls,
     flushes |-> MaxFlush, counts |-> MaxCount, resize |-> FALSE,
     bridge |-> BOOLEAN, snapshots |-> TRUE, filters |-> {NoFilter},
     clears |-> 0, calls |-> 0]
FilterScenario ==
    [ids |-> 1, pushed |-> 1, mounts |-> 1, pulls |-> 1,
     flushes |-> 1, counts |-> 0, resize |-> FALSE, bridge |-> BOOLEAN,
     snapshots |-> FALSE, filters |-> QuickFilters, clears |-> 0,
     calls |-> 0]
ConsoleScenario ==
    [ids |-> 1, pushed |-> 1, mounts |-> 0, pulls |-> 0,
     flushes |-> 0, counts |-> 0, resize |-> FALSE, bridge |-> BOOLEAN,
     snapshots |-> FALSE, filters |-> {NoFilter}, clears |-> 0,
     calls |-> MaxCalls]
ClearScenario ==
    [ids |-> 1, pushed |-> 1, mounts |-> 1, pulls |-> 1,
     flushes |-> 1, counts |-> 0, resize |-> FALSE, bridge |-> {TRUE},
     snapshots |-> FALSE, filters |-> {NoFilter}, clears |-> 1,
     calls |-> 0]

\* Date.now() when the page is loaded, and the end of the exploration
ClockStart == 5000
MaxClock == 9005

(* Program constants.  Sizes are scaled by 1/50 so that the view can   *)
(* be filled: 100 -> 2, and the page sizes 50,100,200,500 keep their   *)
(* order relative to it (one below, one equal, two above).             *)

\* merged.slice(0, 100)
N_max == 2
\* const PAGE_SIZE_OPTIONS = [50, 100, 200, 500]
PAGE_SIZE_OPTIONS == <<1, 2, 3, 4>>
\* useState(100)
InitialPageSize == 2
\* if (now - lastAuthError > 2000)
DEBOUNCE_MS == 2000
\* useDebugConsole: const MAX_LOGS = 5000, scaled like N_max
MAX_LOGS == 2

PageSizes == {PAGE_SIZE_OPTIONS[k] : k \in DOMAIN PAGE_SIZE_OPTIONS}

\* A ProxyRequestLog: id is the dedup key, timestamp the ordering key.  The
\* backend stamps a log once; ids 2k and 2k+1 share a timestamp so that
\* ties occur.
TimestampOf(i) == (i \div 2) + 1
Entry(i) == [id |-> i, timestamp |-> TimestampOf(i)]

VARIABLES
    env,            \* the scenario explored
    tauri,          \* isTauri(): native bridge present
    logs,           \* useState<ProxyRequestLog[]>: the view
    pendingLogs,    \* pendingLogsRef.current
    stats,          \* useState<ProxyStats>
    totalCount,     \* useState(0)
    loading,        \* useState(false)
    pageSize,       \* useState(100)
    isMounted,      \* isMountedRef.current
    listenerSetup,  \* listenerSetupRef.current
    mounts,         \* one record per run of the mount effect
    pulls,          \* loadData calls in flight: (pc, limit) -> how many
    flushing,       \* flush callbacks suspended at the Promise.all
    pulled,         \* history: list applied by the last successful pull
    before,         \* history: what was shown when the only loadData call
                    \* in flight started, while nothing else has touched it
    filter,         \* useState(''): the search filter, also filterRef
    clearing,       \* executeClearLogs calls awaiting clear_proxy_logs
    origin,         \* history: the filter the view and the total count
                    \* were requested with, and whether the view is as
                    \* the clear button left it
    isOpen,         \* useDebugConsole: isOpen
    isEnabled,      \* useDebugConsole: isEnabled
    consoleLogs,    \* useDebugConsole: logs, as the ids of the entries
    unlistenFn,     \* useDebugConsole: unlistenFn is not null
    pollInterval,   \* useDebugConsole: pollInterval is not null
    listeners,      \* 'log-event' listeners registered and not unlistened
    timers,         \* intervals set by startPolling and not cleared
    calls,          \* enable / checkEnabled / disable / poll-tick calls in
                    \* flight: (operation, await) -> how many
    clock,              \* Date.now()
    lastAuthErrorTime,  \* window._lastAuthErrorTime, 0 while unset
    signals,            \* history: times of the 'abv-unauthorized' events
                        \* dispatched on this window
    sessionKey,         \* sessionStorage holds 'abv_admin_api_key'
    localKey,           \* localStorage holds 'abv_admin_api_key'
    isAuthenticated,    \* AdminAuthGuard: useState(isTauri())
    guardEffect,        \* AdminAuthGuard: how its effect last ended
    loginPc,            \* AdminAuthGuard.handleLogin: idle or awaiting fetch
    req,                \* the call of request() being followed
    last            \* history: the step taken last, when it is one of
                    \* the push path or of the 401 path

Ids == 1..env.ids
\* the ids of the logs the backend emits as events
PushedIds == 1..env.pushed
CountVals == 0..env.counts
\* the filters the user selects
Filters == env.filters

monitorVars == <<env, tauri, logs, pendingLogs, stats, totalCount, loading,
                 pageSize, isMounted, listenerSetup, mounts, pulls,
                 flushing, pulled, before, filter, clearing, origin>>

authVars == <<clock, lastAuthErrorTime, signals, sessionKey, localKey,
              isAuthenticated, guardEffect, loginPc>>

consoleVars == <<isOpen, isEnabled, consoleLogs, unlistenFn, pollInterval,
                 listeners, timers, calls>>

vars == <<monitorVars, authVars, consoleVars, req, last>>

----------------------------------------------------------------------------
(* Pure helpers *)

Min(a, b) == IF a <= b THEN a ELSE b

IdsOf(s) == {s[k].id : k \in DOMAIN s}

\* s.filter(p)
RECURSIVE FilterNotIn(_, _)
FilterNotIn(s, idset) ==
    IF s = <<>> THEN <<>>
    ELSE IF Head(s).id \in idset THEN FilterNotIn(Tail(s), idset)
         ELSE <<Head(s)>> \o FilterNotIn(Tail(s), idset)

\* Array.prototype.sort((a, b) => b.timestamp - a.timestamp): stable,
\* newest first.  x goes behind every element that is not older.
RECURSIVE InsertDesc(_, _)
InsertDesc(x, s) ==
    IF s = <<>> THEN <<x>>
    ELSE IF Head(s).timestamp >= x.timestamp
         THEN <<Head(s)>> \o InsertDesc(x, Tail(s))
         ELSE <<x>> \o s

RECURSIVE SortDesc(_)
SortDesc(s) ==
    IF s = <<>> THEN <<>>
    ELSE InsertDesc(s[Len(s)], SortDesc(SubSeq(s, 1, Len(s) - 1)))

\* s.slice(0, n)
Slice(s, n) == SubSeq(s, 1, Min(Len(s), n))

\* the updater without the filter on existingIds
FlushMerge_NoDedup(prev, currentPending) ==
    Slice(SortDesc(currentPending \o prev), N_max)

\* the updater without merged.sort(...)
FlushMerge_NoSort(prev, currentPending) ==
    Slice(FilterNotIn(currentPending, IdsOf(prev)) \o prev, N_max)

\* the updater without .slice(0, 100)
FlushMerge_NoSlice(prev, currentPending) ==
    SortDesc(FilterNotIn(currentPending, IdsOf(prev)) \o prev)

\* the updater with merged.slice(-100) in place of merged.slice(0, 100)
FlushMerge_KeepOldest(prev, currentPending) ==
    LET sorted == SortDesc(FilterNotIn(currentPending, IdsOf(prev)) \o prev)
    IN  SubSeq(sorted, Len(sorted) - Min(Len(sorted), N_max) + 1, Len(sorted))

\* the updater passed to setLogs by the flush callback
FlushMerge(prev, currentPending) ==
    LET existingIds == IdsOf(prev)
        uniqueNewLogs == FilterNotIn(currentPending, existingIds)
        merged == uniqueNewLogs \o prev
    IN  Slice(SortDesc(merged), N_max)

IsSortedDesc(s) ==
    \A k \in 1..(Len(s) - 1) : s[k].timestamp >= s[k + 1].timestamp

UniqueIds(s) == \A j, k \in DOMAIN s : j # k => s[j].id # s[k].id

\* sequences of entries with pairwise distinct ids, at most n long
DistinctSeqs(n) ==
    UNION {{[k \in 1..len |-> Entry(f[k])] :
              f \in {g \in [1..len -> Ids] :
                        \A a, b \in 1..len : a # b => g[a] # g[b]}} :
           len \in 0..Min(n, env.ids)}

\* what get_proxy_logs_filtered may answer for a given limit: an id-unique
\* list, newest first, of at most `limit` rows
HistoryAnswers(limit) == {h \in DistinctSeqs(limit) : IsSortedDesc(h)}

----------------------------------------------------------------------------
(* loadData calls in flight *)

\* the awaits of loadData, in order
PullPcs == {"config", "enable", "count", "history", "stats"}
\* what a call of loadData works with: the pageSize of the render it
\* belongs to (limit) and the filter it was passed
Calls == [limit : PageSizes, filter : Filters]
Call(limit, f) == [limit |-> limit, filter |-> f]
PullKeys == PullPcs \X Calls

NoPulls == [k \in PullKeys |-> 0]

\* how many calls of loadData are in flight; at most env.pulls are
PullCount ==
    Cardinality({kn \in PullKeys \X (1..env.pulls) : kn[2] <= pulls[kn[1]]})

AddPull(P, pc, call) == [P EXCEPT ![<<pc, call>>] = @ + 1]
DelPull(P, pc, call) == [P EXCEPT ![<<pc, call>>] = @ - 1]
MovePull(P, pc, call, to) == AddPull(DelPull(P, pc, call), to, call)

\* loadData up to its first await.  closureLoading and call.limit are the
\* values of `loading` and `pageSize` in the render whose loadData is
\* called, call.filter is the searchFilter argument:
\* `if (loading) return; setLoading(true);` then load_config is awaited.
LoadDataStarts(closureLoading) == ~closureLoading
LoadDataPulls(P, closureLoading, call) ==
    IF closureLoading THEN P ELSE AddPull(P, "config", call)

\* nothing shown has been requested yet
NoOrigin == [view |-> NoFilter, count |-> NoFilter, cleared |-> FALSE]

\* the value of `last` after a step; "Other" for the steps no property
\* tells apart
Step(op) == [op |-> op, dup |-> FALSE, resorted |-> FALSE, cut |-> FALSE]

\* no call of request() is being followed
NoRequest == [pc |-> "idle"]

\* what the monitor shows together: the view, the counts and the buffer
Shown == <<logs, stats, totalCount, pendingLogs>>
NoSnapshot == <<FALSE, <<>>>>

----------------------------------------------------------------------------
(* The mount effect and its cleanup *)

Active == mounts # <<>> /\ ~mounts[Len(mounts)].cleaned

\* useEffect(() => {...}, []): loadData() of the first render, where loading
\* is false and pageSize is 100; setupListener() up to its await; the poll
\* interval in web mode.
Mount ==
    /\ ~Active
    /\ Len(mounts) < env.mounts
    /\ PullCount < env.pulls
    /\ isMounted' = TRUE
    /\ pulls' = LoadDataPulls(pulls, FALSE, Call(InitialPageSize, NoFilter))
    /\ loading' = TRUE
    /\ listenerSetup' = (IF tauri THEN TRUE ELSE listenerSetup)
    /\ mounts' = Append(mounts,
            [listen  |-> IF tauri /\ ~listenerSetup THEN "opening" ELSE "none",
             cleaned |-> FALSE,
             timer   |-> FALSE,
             poll    |-> ~tauri])
    /\ last' = Step("Other")
    /\ UNCHANGED <<authVars, consoleVars, req,
                   env, tauri, logs, pendingLogs, stats, totalCount, pageSize,
                   flushing, pulled>>
    /\ before' = (IF env.snapshots /\ PullCount = 0
                     THEN <<TRUE, Shown>> ELSE NoSnapshot)
    /\ UNCHANGED <<filter, clearing, origin>>

\* unlistenFn = await listen(...): the registration completes and this
\* run's unlistenFn is assigned
ListenResolved(m) ==
    /\ mounts[m].listen = "opening"
    /\ mounts' = [mounts EXCEPT ![m].listen = "live"]
    /\ last' = Step("Other")
    /\ UNCHANGED <<authVars, consoleVars, req,
                   env, tauri, logs, pendingLogs, stats, totalCount, loading,
                   pageSize, isMounted, listenerSetup, pulls, flushing,
                   pulled>>
    /\ UNCHANGED before
    /\ UNCHANGED <<filter, clearing, origin>>

\* listen() rejects: setupListener's promise rejects, nothing is caught
ListenRejected(m) ==
    /\ mounts[m].listen = "opening"
    /\ mounts' = [mounts EXCEPT ![m].listen = "failed"]
    /\ last' = Step("Other")
    /\ UNCHANGED <<authVars, consoleVars, req,
                   env, tauri, logs, pendingLogs, stats, totalCount, loading,
                   pageSize, isMounted, listenerSetup, pulls, flushing,
                   pulled>>
    /\ UNCHANGED before
    /\ UNCHANGED <<filter, clearing, origin>>

\* the function returned by the mount effect
Cleanup ==
    /\ Active
    /\ LET m == Len(mounts) IN
       mounts' = [mounts EXCEPT
            ![m].cleaned = TRUE,
            \* if (unlistenFn) unlistenFn();
            ![m].listen = IF @ = "live" THEN "closed" ELSE @,
            \* if (updateTimeout) clearTimeout(updateTimeout);
            ![m].timer = FALSE,
            \* if (pollInterval) clearInterval(pollInterval);
            ![m].poll = FALSE]
    /\ isMounted' = FALSE
    /\ listenerSetup' = FALSE
    /\ last' = Step("Other")
    /\ UNCHANGED <<authVars, consoleVars, req,
                   env, tauri, logs, pendingLogs, stats, totalCount, loading,
                   pageSize, pulls, flushing, pulled>>
    /\ UNCHANGED before
    /\ UNCHANGED <<filter, clearing, origin>>

----------------------------------------------------------------------------
(* Push path: the 'proxy://request' handler and its debounced flush *)

\* the handler without `if (!isMountedRef.current) return;`
Ingest_NoMountedCheck(m, i) ==
    /\ mounts[m].listen = "live"
    /\ last' = Step("Ingest")
    /\ pulled' = <<FALSE, <<>>>>
    /\ IF \E k \in DOMAIN pendingLogs : pendingLogs[k].id = i
       THEN UNCHANGED <<pendingLogs, mounts>>
       ELSE /\ pendingLogs' = Append(pendingLogs, Entry(i))
            /\ mounts' = [mounts EXCEPT ![m].timer = TRUE]
    /\ UNCHANGED <<authVars, consoleVars, req,
                   env, tauri, logs, stats, totalCount, loading,
                   pageSize, isMounted, listenerSetup, pulls, flushing>>
    /\ before' = NoSnapshot
    /\ origin' = [origin EXCEPT !.cleared = FALSE]
    /\ UNCHANGED <<filter, clearing>>

\* the handler registered by run m receives the log with id i
Ingest(m, i) ==
    /\ mounts[m].listen = "live"
    /\ last' = Step("Ingest")
    /\ pulled' = <<FALSE, <<>>>>
    /\ IF ~isMounted
       THEN UNCHANGED <<pendingLogs, mounts>>
       ELSE IF \E k \in DOMAIN pendingLogs : pendingLogs[k].id = i
       THEN UNCHANGED <<pendingLogs, mounts>>
       ELSE /\ pendingLogs' = Append(pendingLogs, Entry(i))
            /\ mounts' = [mounts EXCEPT ![m].timer = TRUE]
    /\ UNCHANGED <<authVars, consoleVars, req,
                   env, tauri, logs, stats, totalCount, loading, pageSize,
                   isMounted, listenerSetup, pulls, flushing>>
    /\ before' = NoSnapshot
    /\ origin' = [origin EXCEPT !.cleared = FALSE]
    /\ UNCHANGED <<filter, clearing>>

\* the setTimeout callback of run m, up to its await
FlushTimer(m) ==
    /\ mounts[m].timer
    /\ flushing < env.flushes
    /\ mounts' = [mounts EXCEPT ![m].timer = FALSE]
    /\ IF isMounted /\ Len(pendingLogs) > 0
       THEN /\ logs' = FlushMerge(logs, pendingLogs)
            /\ flushing' = flushing + 1
            /\ last' = [op |-> "FlushTimer",
                        dup |-> IdsOf(pendingLogs) \cap IdsOf(logs) # {},
                        resorted |->
                           ~IsSortedDesc(FilterNotIn(pendingLogs, IdsOf(logs))
                                         \o logs),
                        cut |-> Cardinality(IdsOf(pendingLogs) \cup IdsOf(logs))
                                > N_max]
       ELSE /\ UNCHANGED <<logs, flushing>>
            /\ last' = Step("FlushSkip")
    /\ UNCHANGED <<authVars, consoleVars, req,
                   env, tauri, pendingLogs, stats, totalCount, loading, pageSize,
                   isMounted, listenerSetup, pulls, pulled>>
    /\ before' = (IF isMounted /\ Len(pendingLogs) > 0 THEN NoSnapshot
                ELSE before)
    /\ UNCHANGED <<filter, clearing, origin>>

\* the flush callback after `await Promise.all([...])`: ok says whether
\* both calls resolved; hasStats whether get_proxy_stats answered an object
FlushDone(ok, hasStats, s, c) ==
    /\ flushing > 0
    /\ flushing' = flushing - 1
    /\ IF ok /\ isMounted
       THEN /\ stats' = (IF hasStats THEN s ELSE stats)
            /\ totalCount' = c
       ELSE UNCHANGED <<stats, totalCount>>
    /\ pendingLogs' = <<>>
    /\ last' = Step("Other")
    /\ UNCHANGED <<authVars, consoleVars, req,
                   env, tauri, logs, loading, pageSize, isMounted, listenerSetup,
                   mounts, pulls, pulled>>
    /\ before' = NoSnapshot
    \* get_proxy_logs_count_filtered is called with filter: ''
    /\ origin' = (IF ok /\ isMounted
                  THEN [origin EXCEPT !.count = NoFilter] ELSE origin)
    /\ UNCHANGED <<filter, clearing>>

----------------------------------------------------------------------------
(* Pull path: loadData after each of its awaits *)

\* load_config answered; with config.proxy the monitor toggle is awaited
\* next, otherwise the count is requested
PullConfig(call, hasProxy) ==
    /\ pulls[<<"config", call>>] > 0
    /\ pulls' = MovePull(pulls, "config", call,
                         IF hasProxy THEN "enable" ELSE "count")
    /\ last' = Step("Other")
    /\ UNCHANGED <<authVars, consoleVars, req,
                   env, tauri, logs, pendingLogs, stats, totalCount, loading,
                   pageSize, isMounted, listenerSetup, mounts, flushing,
                   pulled>>
    /\ UNCHANGED before
    /\ UNCHANGED <<filter, clearing, origin>>

\* set_proxy_monitor_enabled answered
PullEnable(call) ==
    /\ pulls[<<"enable", call>>] > 0
    /\ pulls' = MovePull(pulls, "enable", call, "count")
    /\ last' = Step("Other")
    /\ UNCHANGED <<authVars, consoleVars, req,
                   env, tauri, logs, pendingLogs, stats, totalCount, loading,
                   pageSize, isMounted, listenerSetup, mounts, flushing,
                   pulled>>
    /\ UNCHANGED before
    /\ UNCHANGED <<filter, clearing, origin>>

\* get_proxy_logs_count_filtered answered c: setTotalCount(count)
PullCountDone(call, c) ==
    /\ pulls[<<"count", call>>] > 0
    /\ pulls' = MovePull(pulls, "count", call, "history")
    /\ totalCount' = c
    /\ last' = Step("Other")
    /\ UNCHANGED <<authVars, consoleVars, req,
                   env, tauri, logs, pendingLogs, stats, loading, pageSize,
                   isMounted, listenerSetup, mounts, flushing, pulled>>
    /\ UNCHANGED before
    /\ origin' = [origin EXCEPT !.count = call.filter]
    /\ UNCHANGED <<filter, clearing>>

\* the history step without `pendingLogsRef.current = []`
PullHistory_KeepPending(call, isArray, h) ==
    /\ pulls[<<"history", call>>] > 0
    /\ pulls' = MovePull(pulls, "history", call, "stats")
    /\ IF isArray
       THEN /\ logs' = h
            /\ pulled' = <<TRUE, h>>
            /\ last' = Step("Other")
            /\ UNCHANGED pendingLogs
       ELSE /\ UNCHANGED <<logs, pendingLogs, pulled>>
            /\ last' = Step("Other")
    /\ UNCHANGED <<authVars, consoleVars, req,
                   env, tauri, stats, totalCount, loading, pageSize,
                   isMounted, listenerSetup, mounts, flushing>>
    /\ UNCHANGED before
    /\ origin' = (IF isArray
                  THEN [origin EXCEPT !.view = call.filter,
                                      !.cleared = FALSE]
                  ELSE origin)
    /\ UNCHANGED <<filter, clearing>>

\* get_proxy_logs_filtered answered: h when the answer is an array
PullHistory(call, isArray, h) ==
    /\ pulls[<<"history", call>>] > 0
    /\ pulls' = MovePull(pulls, "history", call, "stats")
    /\ IF isArray
       THEN /\ logs' = h
            /\ pendingLogs' = <<>>
            /\ pulled' = <<TRUE, h>>
            /\ last' = Step("Other")
       ELSE /\ UNCHANGED <<logs, pendingLogs, pulled>>
            /\ last' = Step("Other")
    /\ UNCHANGED <<authVars, consoleVars, req,
                   env, tauri, stats, totalCount, loading, pageSize, isMounted,
                   listenerSetup, mounts, flushing>>
    /\ UNCHANGED before
    /\ origin' = (IF isArray
                  THEN [origin EXCEPT !.view = call.filter,
                                      !.cleared = FALSE]
                  ELSE origin)
    /\ UNCHANGED <<filter, clearing>>

\* get_proxy_stats answered; then the finally block
PullStats(call, hasStats, s) ==
    /\ pulls[<<"stats", call>>] > 0
    /\ pulls' = DelPull(pulls, "stats", call)
    /\ stats' = (IF hasStats THEN s ELSE stats)
    /\ loading' = FALSE
    /\ last' = Step("Other")
    /\ UNCHANGED <<authVars, consoleVars, req,
                   env, tauri, logs, pendingLogs, totalCount, pageSize, isMounted,
                   listenerSetup, mounts, flushing, pulled>>
    /\ before' = NoSnapshot
    /\ UNCHANGED <<filter, clearing, origin>>

\* the awaited call rejects or the 10 s timeout wins the race: catch, finally
PullFail(pc, call) ==
    /\ pulls[<<pc, call>>] > 0
    /\ pulls' = DelPull(pulls, pc, call)
    /\ loading' = FALSE
    /\ last' = Step(IF env.snapshots THEN "PullFail" ELSE "Other")
    /\ UNCHANGED <<authVars, consoleVars, req,
                   env, tauri, logs, pendingLogs, stats, totalCount, pageSize,
                   isMounted, listenerSetup, mounts, flushing, pulled>>
    /\ before' = NoSnapshot
    /\ UNCHANGED <<filter, clearing, origin>>

\* the page-size select: setPageSize(p), then the pageSize effect of the
\* new render calls its loadData
SetPageSize(p) ==
    /\ Active
    /\ p # pageSize
    /\ env.resize
    /\ LoadDataStarts(loading) => PullCount < env.pulls
    /\ pageSize' = p
    /\ pulls' = LoadDataPulls(pulls, loading, Call(p, filter))
    /\ loading' = TRUE
    /\ last' = Step("Other")
    /\ UNCHANGED <<authVars, consoleVars, req,
                   env, tauri, logs, pendingLogs, stats, totalCount, isMounted,
                   listenerSetup, mounts, flushing, pulled>>
    /\ before' = (IF loading THEN before
                ELSE IF env.snapshots /\ PullCount = 0
                     THEN <<TRUE, Shown>> ELSE NoSnapshot)
    /\ UNCHANGED <<filter, clearing, origin>>

\* the setInterval callback of run m (web mode); `loading` and `loadData`
\* are those of the first render
Poll(m) ==
    /\ mounts[m].poll
    /\ isMounted => PullCount < env.pulls
    /\ IF isMounted
       THEN /\ pulls' = LoadDataPulls(pulls, FALSE,
                                       Call(InitialPageSize, filter))
            /\ loading' = TRUE
       ELSE UNCHANGED <<pulls, loading>>
    /\ last' = Step("Other")
    /\ UNCHANGED <<authVars, consoleVars, req,
                   env, tauri, logs, pendingLogs, stats, totalCount, pageSize,
                   isMounted, listenerSetup, mounts, flushing, pulled>>
    /\ before' = (IF ~isMounted THEN before
                ELSE IF env.snapshots /\ PullCount = 0
                     THEN <<TRUE, Shown>> ELSE NoSnapshot)
    /\ UNCHANGED <<filter, clearing, origin>>

\* a quick filter or the search box: setFilter(f), then the filter effect
\* of the new render calls its loadData(1, filter, accountFilter) and
\* stores the filter in filterRef
SetFilter(f) ==
    /\ Active
    /\ f # filter
    /\ LoadDataStarts(loading) => PullCount < env.pulls
    /\ filter' = f
    /\ pulls' = LoadDataPulls(pulls, loading, Call(pageSize, f))
    /\ loading' = TRUE
    /\ last' = Step("Other")
    /\ UNCHANGED <<authVars, consoleVars, req,
                   env, tauri, logs, pendingLogs, stats,
                   totalCount, pageSize, isMounted, listenerSetup, mounts,
                   flushing, pulled, clearing, origin>>
    /\ before' = (IF loading THEN before
                ELSE IF env.snapshots /\ PullCount = 0
                     THEN <<TRUE, Shown>> ELSE NoSnapshot)

\* executeClearLogs up to `await invoke('clear_proxy_logs')`
ClearLogs ==
    /\ Active
    /\ clearing < env.clears
    /\ clearing' = clearing + 1
    /\ last' = Step("Other")
    /\ UNCHANGED <<authVars, consoleVars, req,
                   env, tauri, logs, pendingLogs, stats,
                   totalCount, loading, pageSize, isMounted, listenerSetup,
                   mounts, pulls, flushing, pulled, before, filter, origin>>

\* executeClearLogs after the await: setLogs([]), setStats({0, 0, 0}),
\* setTotalCount(0) when clear_proxy_logs resolved, nothing when it rejected
ClearDone(ok) ==
    /\ clearing > 0
    /\ clearing' = clearing - 1
    /\ IF ok
       THEN /\ logs' = <<>>
            /\ stats' = 0
            /\ totalCount' = 0
            /\ pulled' = <<FALSE, <<>>>>
            /\ origin' = [origin EXCEPT !.cleared = TRUE]
       ELSE UNCHANGED <<logs, stats, totalCount, pulled, origin>>
    /\ before' = NoSnapshot
    /\ last' = Step("Other")
    /\ UNCHANGED <<authVars, consoleVars, req,
                   env, tauri, pendingLogs, loading, pageSize,
                   isMounted, listenerSetup, mounts, pulls, flushing, filter>>

----------------------------------------------------------------------------
(* useDebugConsole (src/unnamed/part_003): the debug-log feed.  The store  *)
(* is a singleton; its async actions may be called while earlier calls     *)
(* are suspended at an await.  A handle held in unlistenFn or in           *)
(* pollInterval is the one registered last, which is live.                 *)

\* the awaits of enable, checkEnabled and disable, and the loadLogs of a
\* poll tick
CallKeys ==
    ({"enable", "checkEnabled"} \X {"cmd", "load", "listen"})
        \cup {<<"disable", "cmd">>, <<"tick", "load">>}

NoCalls == [k \in CallKeys |-> 0]

CallCount ==
    Cardinality({kn \in CallKeys \X (1..env.calls) : kn[2] <= calls[kn[1]]})

AddCall(C, op, pc) == [C EXCEPT ![<<op, pc>>] = @ + 1]
DelCall(C, op, pc) == [C EXCEPT ![<<op, pc>>] = @ - 1]

\* what get_debug_console_logs may answer
LogAnswers == {<<>>} \cup {<<i>> : i \in Ids}

\* the store before any of its actions has run
ConsoleIdle ==
    /\ isOpen = FALSE
    /\ isEnabled = FALSE
    /\ consoleLogs = <<>>
    /\ unlistenFn = FALSE
    /\ pollInterval = FALSE
    /\ listeners = 0
    /\ timers = 0
    /\ calls = NoCalls

\* open / close / toggle
ConsoleToggle ==
    /\ env.calls > 0
    /\ isOpen' = ~isOpen
    /\ last' = Step("Other")
    /\ UNCHANGED <<monitorVars, authVars, req, isEnabled, consoleLogs,
                   unlistenFn, pollInterval, listeners, timers, calls>>

\* enable(), checkEnabled() or disable() up to its first await: the backend
\* command (invoke in native mode, request in web mode)
ConsoleCall(op) ==
    /\ CallCount < env.calls
    /\ calls' = AddCall(calls, op, "cmd")
    /\ last' = Step("Other")
    /\ UNCHANGED <<monitorVars, authVars, req, isOpen, isEnabled,
                   consoleLogs, unlistenFn, pollInterval, listeners, timers>>

\* enable after enable_debug_console: set({ isEnabled: true }) and
\* loadLogs() is awaited, or the catch block
EnableAnswered(ok) ==
    /\ calls[<<"enable", "cmd">>] > 0
    /\ IF ok
       THEN /\ isEnabled' = TRUE
            /\ calls' = AddCall(DelCall(calls, "enable", "cmd"),
                                "enable", "load")
       ELSE /\ calls' = DelCall(calls, "enable", "cmd")
            /\ UNCHANGED isEnabled
    /\ last' = Step("Other")
    /\ UNCHANGED <<monitorVars, authVars, req, isOpen, consoleLogs,
                   unlistenFn, pollInterval, listeners, timers>>

\* checkEnabled after is_debug_console_enabled: set({ isEnabled }) and,
\* when enabled, loadLogs() is awaited; or the catch block
CheckAnswered(ok, enabled) ==
    /\ calls[<<"checkEnabled", "cmd">>] > 0
    /\ IF ok
       THEN /\ isEnabled' = enabled
            /\ calls' = IF enabled
                        THEN AddCall(DelCall(calls, "checkEnabled", "cmd"),
                                     "checkEnabled", "load")
                        ELSE DelCall(calls, "checkEnabled", "cmd")
       ELSE /\ calls' = DelCall(calls, "checkEnabled", "cmd")
            /\ UNCHANGED isEnabled
    /\ last' = Step("Other")
    /\ UNCHANGED <<monitorVars, authVars, req, isOpen, consoleLogs,
                   unlistenFn, pollInterval, listeners, timers>>

\* the mechanism chosen after loadLogs, with startPolling() in both modes
AfterLoad_AlwaysPolls(op) ==
    IF tauri /\ ~unlistenFn
    THEN /\ calls' = AddCall(DelCall(calls, op, "load"), op, "listen")
         /\ pollInterval' = TRUE
         /\ timers' = IF pollInterval THEN timers ELSE timers + 1
    ELSE /\ calls' = DelCall(calls, op, "load")
         /\ pollInterval' = TRUE
         /\ timers' = IF pollInterval THEN timers ELSE timers + 1

\* enable / checkEnabled after loadLogs: startListening() up to its await
\* in native mode (`if (unlistenFn) return;`), startPolling() in web mode
\* (`if (get().pollInterval) return;`)
AfterLoad(op) ==
    IF tauri
    THEN /\ calls' = IF unlistenFn
                     THEN DelCall(calls, op, "load")
                     ELSE AddCall(DelCall(calls, op, "load"), op, "listen")
         /\ UNCHANGED <<pollInterval, timers>>
    ELSE /\ calls' = DelCall(calls, op, "load")
         /\ pollInterval' = TRUE
         /\ timers' = IF pollInterval THEN timers ELSE timers + 1

\* loadLogs answered for enable, checkEnabled or a poll tick: set({ logs })
\* or its own catch block; then the caller goes on
LoadAnswered(op, ok, answer) ==
    /\ calls[<<op, "load">>] > 0
    /\ consoleLogs' = (IF ok THEN answer ELSE consoleLogs)
    /\ IF op = "tick"
       THEN /\ calls' = DelCall(calls, op, "load")
            /\ UNCHANGED <<pollInterval, timers>>
       ELSE AfterLoad(op)
    /\ last' = Step("Other")
    /\ UNCHANGED <<monitorVars, authVars, req, isOpen, isEnabled,
                   unlistenFn, listeners>>

\* startListening after `await listen('log-event', ...)`:
\* set({ unlistenFn: unlisten }), or the catch block
ListenAnswered(op, ok) ==
    /\ calls[<<op, "listen">>] > 0
    /\ ok => listeners < MaxListeners
    /\ calls' = DelCall(calls, op, "listen")
    /\ IF ok
       THEN /\ listeners' = listeners + 1
            /\ unlistenFn' = TRUE
       ELSE UNCHANGED <<listeners, unlistenFn>>
    /\ last' = Step("Other")
    /\ UNCHANGED <<monitorVars, authVars, req, isOpen, isEnabled,
                   consoleLogs, pollInterval, timers>>

\* disable after disable_debug_console: stopListening() in native mode,
\* stopPolling() in web mode, set({ isEnabled: false }); or the catch block
DisableAnswered(ok) ==
    /\ calls[<<"disable", "cmd">>] > 0
    /\ calls' = DelCall(calls, "disable", "cmd")
    /\ IF ok
       THEN /\ isEnabled' = FALSE
            /\ IF tauri
               THEN /\ unlistenFn' = FALSE
                    /\ listeners' = IF unlistenFn THEN listeners - 1
                                    ELSE listeners
                    /\ UNCHANGED <<pollInterval, timers>>
               ELSE /\ pollInterval' = FALSE
                    /\ timers' = IF pollInterval THEN timers - 1 ELSE timers
                    /\ UNCHANGED <<unlistenFn, listeners>>
       ELSE UNCHANGED <<isEnabled, unlistenFn, listeners, pollInterval,
                        timers>>
    /\ last' = Step("DisableSettled")
    /\ UNCHANGED <<monitorVars, authVars, req, isOpen, consoleLogs>>

\* the interval callback of startPolling: loadLogs() when enabled and open
PollTick ==
    /\ timers > 0
    /\ isEnabled /\ isOpen
    /\ CallCount < env.calls
    /\ calls' = AddCall(calls, "tick", "load")
    /\ last' = Step("Other")
    /\ UNCHANGED <<monitorVars, authVars, req, isOpen, isEnabled,
                   consoleLogs, unlistenFn, pollInterval, listeners, timers>>

\* addLog: append, and keep the last MAX_LOGS entries
addLog(L, i) ==
    LET newLogs == Append(L, i)
    IN  IF Len(newLogs) > MAX_LOGS
        THEN SubSeq(newLogs, Len(newLogs) - MAX_LOGS + 1, Len(newLogs))
        ELSE newLogs

\* the backend emits 'log-event' for entry i: every registered listener
\* calls addLog(event.payload)
RECURSIVE Deliver(_, _, _)
Deliver(L, i, n) == IF n = 0 THEN L ELSE Deliver(addLog(L, i), i, n - 1)

LogEvent(i) ==
    /\ listeners > 0
    /\ consoleLogs' = Deliver(consoleLogs, i, listeners)
    /\ last' = Step("LogEvent")
    /\ UNCHANGED <<monitorVars, authVars, req, isOpen, isEnabled,
                   unlistenFn, pollInterval, listeners, timers, calls>>

----------------------------------------------------------------------------

\* the page before any 401 and before AdminAuthGuard's effect has run
AuthIdle ==
    /\ clock = ClockStart
    /\ lastAuthErrorTime = 0
    /\ signals = <<>>
    /\ sessionKey = FALSE
    /\ localKey = FALSE
    /\ isAuthenticated = FALSE
    /\ guardEffect = "pending"
    /\ loginPc = "idle"

Init ==
    /\ AuthIdle
    /\ ConsoleIdle
    /\ env \in {DataScenario, ResizeScenario, LifecycleScenario,
                OverlapScenario, FilterScenario, ClearScenario,
                ConsoleScenario}
    /\ tauri \in env.bridge
    /\ logs = <<>>
    /\ pendingLogs = <<>>
    /\ stats = 0
    /\ totalCount = 0
    /\ loading = FALSE
    /\ pageSize = InitialPageSize
    /\ isMounted = TRUE
    /\ listenerSetup = FALSE
    /\ mounts = <<>>
    /\ pulls = NoPulls
    /\ flushing = 0
    /\ pulled = <<FALSE, <<>>>>
    /\ before = NoSnapshot
    /\ filter = NoFilter
    /\ clearing = 0
    /\ origin = NoOrigin
    /\ req = NoRequest
    /\ last = Step("Init")

Next ==
    \/ Mount
    \/ Cleanup
    \/ \E m \in DOMAIN mounts : ListenResolved(m)
    \/ \E m \in DOMAIN mounts : ListenRejected(m)
    \/ \E m \in DOMAIN mounts, i \in PushedIds : Ingest(m, i)
    \/ \E m \in DOMAIN mounts : FlushTimer(m)
    \/ \E ok, hasStats \in BOOLEAN, s, c \in CountVals :
            FlushDone(ok, hasStats, s, c)
    \/ \E call \in Calls, hasProxy \in BOOLEAN :
            PullConfig(call, hasProxy)
    \/ \E call \in Calls : PullEnable(call)
    \/ \E call \in Calls, c \in CountVals : PullCountDone(call, c)
    \/ \E call \in Calls :
            /\ pulls[<<"history", call>>] > 0
            /\ \E isArray \in BOOLEAN, h \in HistoryAnswers(call.limit) :
                    PullHistory(call, isArray, h)
    \/ \E call \in Calls, hasStats \in BOOLEAN, s \in CountVals :
            PullStats(call, hasStats, s)
    \/ \E pc \in PullPcs, call \in Calls : PullFail(pc, call)
    \/ \E p \in PageSizes : SetPageSize(p)
    \/ \E m \in DOMAIN mounts : Poll(m)
    \/ \E f \in Filters : SetFilter(f)
    \/ ClearLogs
    \/ \E ok \in BOOLEAN : ClearDone(ok)
    \/ ConsoleToggle
    \/ \E op \in {"enable", "checkEnabled", "disable"} : ConsoleCall(op)
    \/ \E ok \in BOOLEAN : EnableAnswered(ok)
    \/ \E ok, enabled \in BOOLEAN : CheckAnswered(ok, enabled)
    \/ \E op \in {"enable", "checkEnabled", "tick"}, ok \in BOOLEAN,
          answer \in LogAnswers : LoadAnswered(op, ok, answer)
    \/ \E op \in {"enable", "checkEnabled"}, ok \in BOOLEAN :
            ListenAnswered(op, ok)
    \/ \E ok \in BOOLEAN : DisableAnswered(ok)
    \/ PollTick
    \/ \E i \in Ids : LogEvent(i)

Spec == Init /\ [][Next]_vars

\* what the event loop does on its own once it is possible: a pending
\* promise settles (listen(), the backend calls of loadData and of the
\* flush) and a live timer fires (flush timeout, poll interval).  Mounting,
\* unmounting, push events and the page-size select are up to React, the
\* backend and the user.
Settles ==
    \/ \E m \in DOMAIN mounts : ListenResolved(m) \/ ListenRejected(m)
    \/ \E m \in DOMAIN mounts : FlushTimer(m)
    \/ \E ok, hasStats \in BOOLEAN, s, c \in CountVals :
            FlushDone(ok, hasStats, s, c)
    \/ \E call \in Calls, hasProxy \in BOOLEAN :
            PullConfig(call, hasProxy)
    \/ \E call \in Calls : PullEnable(call)
    \/ \E call \in Calls, c \in CountVals : PullCountDone(call, c)
    \/ \E call \in Calls :
            /\ pulls[<<"history", call>>] > 0
            /\ \E isArray \in BOOLEAN, h \in HistoryAnswers(call.limit) :
                    PullHistory(call, isArray, h)
    \/ \E call \in Calls, hasStats \in BOOLEAN, s \in CountVals :
            PullStats(call, hasStats, s)
    \/ \E m \in DOMAIN mounts : Poll(m)
    \/ \E ok \in BOOLEAN : ClearDone(ok)
    \/ \E ok \in BOOLEAN : EnableAnswered(ok)
    \/ \E ok, enabled \in BOOLEAN : CheckAnswered(ok, enabled)
    \/ \E op \in {"enable", "checkEnabled", "tick"}, ok \in BOOLEAN,
          answer \in LogAnswers : LoadAnswered(op, ok, answer)
    \/ \E op \in {"enable", "checkEnabled"}, ok \in BOOLEAN :
            ListenAnswered(op, ok)
    \/ \E ok \in BOOLEAN : DisableAnswered(ok)
    \/ PollTick

FairSpec == Spec /\ WF_vars(Settles)

----------------------------------------------------------------------------
(* Web mode: the 401 path of request() and AdminAuthGuard *)

\* how far the clock moves between two observations
ClockSteps == {DEBOUNCE_MS \div 2, DEBOUNCE_MS - 1, DEBOUNCE_MS,
               DEBOUNCE_MS + 1}

Tick(d) ==
    /\ clock + d <= MaxClock
    /\ clock' = clock + d
    /\ last' = Step("Other")
    /\ UNCHANGED <<monitorVars, consoleVars, req,
                   lastAuthErrorTime, signals, sessionKey,
                   localKey, isAuthenticated, guardEffect, loginPc>>

\* the debounce with >= in place of >
DebounceOpen_AtLeast(now, lastAuthError) == now - lastAuthError >= DEBOUNCE_MS

\* request(): `now - lastAuthError > 2000`
DebounceOpen(now, lastAuthError) == now - lastAuthError > DEBOUNCE_MS

\* request() in web mode receives a 401: the debounce, the dispatch with
\* its synchronous listener handleUnauthorized, then the rejection
Response401 ==
    /\ ~tauri
    /\ IF DebounceOpen(clock, lastAuthErrorTime)
       THEN /\ lastAuthErrorTime' = clock
            /\ signals' = Append(signals, clock)
            /\ IF guardEffect = "listening"
               THEN /\ sessionKey' = FALSE
                    /\ localKey' = FALSE
                    /\ isAuthenticated' = FALSE
               ELSE UNCHANGED <<sessionKey, localKey, isAuthenticated>>
            /\ last' = Step("Unauthorized401")
       ELSE /\ UNCHANGED <<lastAuthErrorTime, signals, sessionKey, localKey,
                           isAuthenticated>>
            /\ last' = Step("Suppressed401")
    /\ UNCHANGED <<monitorVars, consoleVars, req, clock, guardEffect, loginPc>>

\* AdminAuthGuard's useEffect(() => {...}, [])
GuardEffect ==
    /\ ~tauri
    /\ guardEffect = "pending"
    /\ IF sessionKey
       THEN \* setIsAuthenticated(true); return;
            /\ isAuthenticated' = TRUE
            /\ guardEffect' = "returned"
            /\ UNCHANGED <<sessionKey, localKey>>
       ELSE /\ IF localKey
               THEN /\ sessionKey' = TRUE
                    /\ localKey' = FALSE
                    /\ isAuthenticated' = TRUE
               ELSE UNCHANGED <<sessionKey, localKey, isAuthenticated>>
            \* window.addEventListener('abv-unauthorized', ...)
            /\ guardEffect' = "listening"
    /\ last' = Step("Other")
    /\ UNCHANGED <<monitorVars, consoleVars, req,
                   clock, lastAuthErrorTime, signals, loginPc>>

\* the cleanup of that effect (StrictMode re-runs the effect afterwards):
\* removeEventListener when the effect returned one
GuardCleanup ==
    /\ guardEffect # "pending"
    /\ guardEffect' = "pending"
    /\ last' = Step("Other")
    /\ UNCHANGED <<monitorVars, consoleVars, req,
                   clock, lastAuthErrorTime, signals,
                   sessionKey, localKey, isAuthenticated, loginPc>>

\* window.location.reload(): the window and the components start over,
\* the storages stay
Reloaded ==
    /\ lastAuthErrorTime' = 0
    /\ signals' = <<>>
    /\ isAuthenticated' = FALSE
    /\ guardEffect' = "pending"
    /\ loginPc' = "idle"

\* handleLogin up to `await fetch('/api/accounts', ...)`
LoginSubmit ==
    /\ ~tauri
    /\ guardEffect # "pending"
    /\ ~isAuthenticated
    /\ loginPc = "idle"
    /\ sessionKey' = TRUE
    /\ loginPc' = "fetch"
    /\ last' = Step("Other")
    /\ UNCHANGED <<monitorVars, consoleVars, req,
                   clock, lastAuthErrorTime, signals, localKey,
                   isAuthenticated, guardEffect>>

\* how handleLogin ended, as `last` records it
LoginOp(answer) ==
    CASE answer = "ok" -> "LoginOk"
      [] answer = "other" -> "LoginOther"
      [] OTHER -> "LoginRejected"

\* handleLogin without sessionStorage.removeItem in the 401 branch
LoginAnswer_KeepsKeyOn401(answer) ==
    /\ loginPc = "fetch"
    /\ CASE answer \in {"ok", "other"} ->
              /\ localKey' = (IF answer = "ok" THEN FALSE ELSE localKey)
              /\ Reloaded
              /\ UNCHANGED sessionKey
         [] OTHER ->
              /\ sessionKey' = (IF answer = "network" THEN FALSE ELSE sessionKey)
              /\ loginPc' = "idle"
              /\ UNCHANGED <<localKey, lastAuthErrorTime, signals,
                             isAuthenticated, guardEffect>>
    /\ last' = Step(LoginOp(answer))
    /\ UNCHANGED <<monitorVars, consoleVars, req, clock>>

\* handleLogin after the fetch: answer is "ok" (2xx), "unauthorized" (401),
\* "other" (another status) or "network" (fetch rejected)
LoginAnswer(answer) ==
    /\ loginPc = "fetch"
    /\ CASE answer = "ok" ->
              /\ localKey' = FALSE
              /\ Reloaded
              /\ UNCHANGED sessionKey
         [] answer = "other" ->
              /\ Reloaded
              /\ UNCHANGED <<sessionKey, localKey>>
         [] OTHER ->
              /\ sessionKey' = FALSE
              /\ loginPc' = "idle"
              /\ UNCHANGED <<localKey, lastAuthErrorTime, signals,
                             isAuthenticated, guardEffect>>
    /\ last' = Step(LoginOp(answer))
    /\ UNCHANGED <<monitorVars, consoleVars, req, clock>>

\* handleLogout of the navbar
Logout ==
    /\ ~tauri
    /\ isAuthenticated
    /\ sessionKey' = FALSE
    /\ localKey' = FALSE
    /\ Reloaded
    /\ last' = Step("Other")
    /\ UNCHANGED <<monitorVars, consoleVars, req, clock>>

\* ProxyMonitor not yet mounted
MonitorIdle ==
    /\ env = LifecycleScenario
    /\ logs = <<>>
    /\ pendingLogs = <<>>
    /\ stats = 0
    /\ totalCount = 0
    /\ loading = FALSE
    /\ pageSize = InitialPageSize
    /\ isMounted = TRUE
    /\ listenerSetup = FALSE
    /\ mounts = <<>>
    /\ pulls = NoPulls
    /\ flushing = 0
    /\ pulled = <<FALSE, <<>>>>
    /\ before = NoSnapshot
    /\ filter = NoFilter
    /\ clearing = 0
    /\ origin = NoOrigin

\* a page load in web mode; either storage may hold a key from before
InitAuth ==
    /\ MonitorIdle
    /\ ConsoleIdle
    /\ tauri = FALSE
    /\ clock = ClockStart
    /\ lastAuthErrorTime = 0
    /\ signals = <<>>
    /\ sessionKey \in BOOLEAN
    /\ localKey \in BOOLEAN
    /\ isAuthenticated = FALSE
    /\ guardEffect = "pending"
    /\ loginPc = "idle"
    /\ req = NoRequest
    /\ last = Step("Init")

NextAuth ==
    \/ \E d \in ClockSteps : Tick(d)
    \/ Response401
    \/ GuardEffect
    \/ GuardCleanup
    \/ LoginSubmit
    \/ \E answer \in {"ok", "unauthorized", "other", "network"} :
            LoginAnswer(answer)
    \/ Logout

SpecAuth == InitAuth /\ [][NextAuth]_vars

----------------------------------------------------------------------------
(* request(): the command dispatcher                                        *)
(*                                                                         *)
(* A JavaScript string is a sequence of one-character strings, so that     *)
(* includes, replace and encodeURIComponent act on it as they do in the    *)
(* code.  A value is [kind, s]: a string with its characters, undefined,   *)
(* null, or a plain object.  An object of args is the sequence of its      *)
(* entries in insertion order, the order of Object.keys and                *)
(* Object.entries.  Command names are the identifiers callers pass.        *)

Str(s) == [kind |-> "string", s |-> s]
Undefined == [kind |-> "undefined", s |-> <<>>]
Null == [kind |-> "null", s |-> <<>>]
PlainObject == [kind |-> "object", s |-> <<>>]

\* String(value)
String(v) ==
    CASE v.kind = "string" -> v.s
      [] v.kind = "undefined" ->
            <<"u", "n", "d", "e", "f", "i", "n", "e", "d">>
      [] v.kind = "null" -> <<"n", "u", "l", "l">>
      [] OTHER -> <<"[", "o", "b", "j", "e", "c", "t", " ",
                    "O", "b", "j", "e", "c", "t", "]">>

\* encodeURIComponent on one character: everything but letters, digits and
\* - _ . ! ~ * ' ( ) is percent-escaped
EncodeChar(c) ==
    CASE c = "/" -> <<"%", "2", "F">>
      [] c = ":" -> <<"%", "3", "A">>
      [] c = " " -> <<"%", "2", "0">>
      [] c = "[" -> <<"%", "5", "B">>
      [] c = "]" -> <<"%", "5", "D">>
      [] c = "?" -> <<"%", "3", "F">>
      [] OTHER -> <<c>>

RECURSIVE encodeURIComponent(_)
encodeURIComponent(s) ==
    IF s = <<>> THEN <<>>
    ELSE EncodeChar(Head(s)) \o encodeURIComponent(Tail(s))

\* s.includes(t)
Includes(s, t) ==
    \E i \in 0..(Len(s) - Len(t)) : SubSeq(s, i + 1, i + Len(t)) = t

\* s.indexOf(t), for s that includes t
IndexOf(s, t) ==
    CHOOSE i \in 0..(Len(s) - Len(t)) :
        /\ SubSeq(s, i + 1, i + Len(t)) = t
        /\ \A j \in 0..(i - 1) : SubSeq(s, j + 1, j + Len(t)) # t

\* s.replace(t, r) with a string pattern: the first occurrence only.  r is
\* a result of encodeURIComponent, which holds no "$" replacement pattern.
Replace(s, t, r) ==
    IF ~Includes(s, t) THEN s
    ELSE LET i == IndexOf(s, t)
         IN  SubSeq(s, 1, i) \o r \o SubSeq(s, i + Len(t) + 1, Len(s))

\* keys that callers pass, and one that is a prefix of a path parameter
Key_id == <<"i", "d">>
Key_i == <<"i">>
Key_request == <<"r", "e", "q", "u", "e", "s", "t">>
Key_max_ips == <<"m", "a", "x", "_", "i", "p", "s">>
ArgKeys == {Key_id, Key_i, Key_request, Key_max_ips}

\* values: '', 'a/b', 'api', null, undefined, an object
ArgValues ==
    {Str(<<>>), Str(<<"a", "/", "b">>), Str(<<"a", "p", "i">>),
     Null, Undefined, PlainObject}

\* args as passed by a caller: undefined, or an object
NoArgs == [defined |-> FALSE, entries |-> <<>>]
Obj(entries) == [defined |-> TRUE, entries |-> entries]

KeysOf(entries) == {entries[k].key : k \in DOMAIN entries}

\* every args with at most n keys
ArgsUpTo(n) ==
    {NoArgs} \cup
    UNION {{Obj([k \in 1..len |-> [key |-> ks[k], value |-> vs[k]]]) :
              ks \in {f \in [1..len -> ArgKeys] :
                         \A a, b \in 1..len : a # b => f[a] # f[b]},
              vs \in [1..len -> ArgValues]} :
           len \in 0..n}

\* obj[key]
ValueOf(entries, key) ==
    IF key \in KeysOf(entries)
    THEN entries[CHOOSE k \in DOMAIN entries : entries[k].key = key].value
    ELSE Undefined

\* delete obj[key]
DeleteKey(entries, key) == SelectSeq(entries, LAMBDA e : e.key # key)

\* the entries of COMMAND_MAPPING for the user tokens
Url_user_tokens ==
    <<"/", "a", "p", "i", "/", "u", "s", "e", "r", "-",
      "t", "o", "k", "e", "n", "s">>
Url_user_tokens_id == Url_user_tokens \o <<"/", ":", "i", "d">>
Url_user_tokens_id_renew ==
    Url_user_tokens_id \o <<"/", "r", "e", "n", "e", "w">>

COMMAND_MAPPING ==
    [list_user_tokens  |-> [url |-> Url_user_tokens, method |-> "GET"],
     create_user_token |-> [url |-> Url_user_tokens, method |-> "POST"],
     renew_user_token  |-> [url |-> Url_user_tokens_id_renew,
                            method |-> "POST"],
     delete_user_token |-> [url |-> Url_user_tokens_id, method |-> "DELETE"],
     update_user_token |-> [url |-> Url_user_tokens_id, method |-> "PATCH"]]

MappedCommands == DOMAIN COMMAND_MAPPING
\* a command that callers invoke and the registry does not hold
UnmappedCommand == "set_window_theme"

\* the lookup that answers a guess for a name it does not hold
Lookup_Guess(cmd) ==
    IF cmd \in MappedCommands
    THEN [found |-> TRUE, url |-> COMMAND_MAPPING[cmd].url,
          method |-> COMMAND_MAPPING[cmd].method]
    ELSE [found |-> TRUE, url |-> Url_user_tokens, method |-> "GET"]

\* const mapping = COMMAND_MAPPING[cmd]; found is what `!mapping` tests
Lookup(cmd) ==
    IF cmd \in MappedCommands
    THEN [found |-> TRUE, url |-> COMMAND_MAPPING[cmd].url,
          method |-> COMMAND_MAPPING[cmd].method]
    ELSE [found |-> FALSE, url |-> <<>>, method |-> "none"]

\* `delete bodyArgs[key]` when bodyArgs is args itself and not a copy
DeleteFromCopy_Alias(w, key) ==
    [w EXCEPT !.args = DeleteKey(@, key), !.bodyArgs = DeleteKey(@, key)]

\* `delete bodyArgs[key]`, bodyArgs being the copy { ...args }
DeleteFromCopy(w, key) ==
    [w EXCEPT !.bodyArgs = DeleteKey(@, key)]

\* Object.keys(args).forEach(key => ...) from the k-th key on; w holds url,
\* the caller's args and bodyArgs
RECURSIVE SubstitutePath(_, _, _)
SubstitutePath(entries, k, w) ==
    IF k > Len(entries) THEN w
    ELSE LET key == entries[k].key
             placeholder == <<":">> \o key
         IN  IF Includes(w.url, placeholder)
             THEN SubstitutePath(entries, k + 1,
                    DeleteFromCopy(
                      [w EXCEPT !.url =
                          Replace(@, placeholder,
                            encodeURIComponent(
                              String(ValueOf(w.args, key))))],
                      key))
             ELSE SubstitutePath(entries, k + 1, w)

\* Object.entries(args).forEach(([key, value]) => ...) from the k-th entry
\* on: the pairs appended to params
RECURSIVE QueryParams(_, _, _)
QueryParams(entries, k, url) ==
    IF k > Len(entries) THEN <<>>
    ELSE LET e == entries[k]
             rest == QueryParams(entries, k + 1, url)
         IN  IF Includes(url, encodeURIComponent(String(e.value)))
             THEN rest
             ELSE IF e.value.kind \notin {"undefined", "null"}
             THEN <<[key |-> e.key, value |-> String(e.value)]>> \o rest
             ELSE rest

\* options.body: absent, the JSON text of a value, or that of an object
NoBody == [kind |-> "none", value |-> Undefined, entries |-> <<>>]

\* JSON.stringify(v) of a value: undefined has no JSON text
JsonOfValue(v) ==
    IF v.kind = "undefined" THEN NoBody
    ELSE [kind |-> "value", value |-> v, entries |-> <<>>]

\* JSON.stringify(obj) of an object: entries whose value is undefined are
\* left out
JsonOfObject(entries) ==
    [kind |-> "object", value |-> Undefined,
     entries |-> SelectSeq(entries, LAMBDA e : e.value.kind # "undefined")]

\* lines 2048-2094: url, bodyArgs, query string and body for a mapping
BuildRequest(mapping, args) ==
    LET w0 == [url |-> mapping.url, args |-> args.entries,
               bodyArgs |-> args.entries]
        w == IF args.defined THEN SubstitutePath(args.entries, 1, w0)
             ELSE w0
        inQuery == mapping.method \in {"GET", "DELETE"} /\ args.defined
        inBody == /\ ~inQuery
                  /\ mapping.method \in {"POST", "PATCH"}
                  /\ args.defined
        request == ValueOf(w.bodyArgs, Key_request)
    IN  [url |-> w.url,
         args |-> [defined |-> args.defined, entries |-> w.args],
         bodyArgs |-> w.bodyArgs,
         query |-> IF inQuery THEN QueryParams(w.args, 1, w.url) ELSE <<>>,
         body |-> IF ~inBody THEN NoBody
                  ELSE IF request.kind # "undefined"
                  THEN JsonOfValue(request)
                  ELSE JsonOfObject(w.bodyArgs)]

\* what a call of request() settles with
NoOutcome == [kind |-> "none", how |-> "none", n |-> 0, text |-> ""]
Resolve(how, text) == [kind |-> "resolved", how |-> how, n |-> 0, text |-> text]
Reject(how, n, text) == [kind |-> "rejected", how |-> how, n |-> n, text |-> text]

\* a call of request() once it has started: its position, its locals, and
\* what it has done so far
Started(pc, cmd, args) ==
    [pc |-> pc, cmd |-> cmd,
     given |-> args,            \* history: args as the caller passed it
     keyAtCall |-> sessionKey,  \* history: the credential held at the call
     args |-> args, bodyArgs |-> <<>>,
     url |-> <<>>, query |-> <<>>, method |-> "none", body |-> NoBody,
     keyRead |-> FALSE,         \* sessionStorage.getItem was called
     fetches |-> 0,             \* calls of fetch
     invokes |-> <<>>,          \* calls of the bridge's invoke
     bridge |-> "none",         \* how invoke settled: returned or threw
     status |-> 0, payload |-> "",
     signalled |-> FALSE,       \* dispatched 'abv-unauthorized'
     outcome |-> NoOutcome]

\* response bodies: nothing, a JSON object without and with an `error`
\* message, text that is not JSON
Payloads == {"empty", "json", "jsonError", "text"}
Statuses == {200, 204, 401, 500}

\* response.ok
ResponseOk(status) == status >= 200 /\ status <= 299

\* the catch block that wraps what the bridge threw
Rethrow_Wrapped(e) ==
    Reject("wrapped", 0, e)

\* catch (error) { console.error(...); throw error; }
Rethrow(e) ==
    Reject("bridge", 0, e)

\* request() up to its first await, or to its throw
RequestCall(cmd, args) ==
    /\ req.pc = "idle"
    /\ IF tauri
       THEN \* await import(...); return await invoke<T>(cmd, args);
            req' = [Started("invoke", cmd, args) EXCEPT
                        !.invokes = <<[cmd |-> cmd, args |-> args]>>]
       ELSE LET mapping == Lookup(cmd) IN
            IF ~mapping.found
            THEN \* throw new Error(`Command [${cmd}] not supported ...`)
                 req' = [Started("settled", cmd, args) EXCEPT
                            !.outcome = Reject("notSupported", 0, cmd)]
            ELSE LET built == BuildRequest(mapping, args) IN
                 req' = [Started("fetch", cmd, args) EXCEPT
                            !.args = built.args,
                            !.bodyArgs = built.bodyArgs,
                            !.url = built.url,
                            !.query = built.query,
                            !.method = mapping.method,
                            !.body = built.body,
                            !.keyRead = TRUE,
                            !.fetches = 1]
    /\ last' = Step("Other")
    /\ UNCHANGED <<monitorVars, consoleVars, authVars>>

\* after a response that is not ok: a suppressed 401 falls through to the
\* success path
AfterNotOk_SilentWhenSuppressed(status, dispatched) ==
    IF status = 401 /\ ~dispatched THEN "text" ELSE "errorBody"

\* after a response that is not ok: `await response.json()` and the throw
AfterNotOk(status, dispatched) ==
    "errorBody"

\* `await fetch(url, options)` resolves with a response
FetchResponds(status, payload) ==
    /\ req.pc = "fetch"
    /\ status = 204 => payload = "empty"
    /\ LET dispatches == /\ ~tauri
                         /\ status = 401
                         /\ DebounceOpen(clock, lastAuthErrorTime)
       IN
       /\ IF dispatches
          THEN /\ lastAuthErrorTime' = clock
               /\ signals' = Append(signals, clock)
               \* the listener of AdminAuthGuard runs inside dispatchEvent
               /\ IF guardEffect = "listening"
                  THEN /\ sessionKey' = FALSE
                       /\ localKey' = FALSE
                       /\ isAuthenticated' = FALSE
                  ELSE UNCHANGED <<sessionKey, localKey, isAuthenticated>>
          ELSE UNCHANGED <<lastAuthErrorTime, signals, sessionKey, localKey,
                           isAuthenticated>>
       /\ req' = [req EXCEPT
                    !.status = status,
                    !.payload = payload,
                    !.signalled = dispatches,
                    !.pc = IF ~ResponseOk(status)
                           THEN AfterNotOk(status, dispatches)
                           ELSE IF status = 204 THEN "settled" ELSE "text",
                    !.outcome = IF status = 204 THEN Resolve("null", "")
                                ELSE @]
    /\ last' = Step("Other")
    /\ UNCHANGED <<monitorVars, consoleVars, clock, guardEffect, loginPc>>

\* `await fetch(url, options)` rejects: the outer catch rethrows
FetchRejects ==
    /\ req.pc = "fetch"
    /\ req' = [req EXCEPT !.pc = "settled",
                          !.outcome = Reject("network", 0, "")]
    /\ last' = Step("Other")
    /\ UNCHANGED <<monitorVars, consoleVars, authVars>>

\* the try around JSON.parse without its fallback
ParseText_Throws(payload) ==
    CASE payload = "empty" -> Resolve("null", "")
      [] payload = "text" -> Reject("syntax", 0, payload)
      [] OTHER -> Resolve("parsed", payload)

\* lines 2117-2127: null for no text, the parsed value, else the raw text
ParseText(payload) ==
    CASE payload = "empty" -> Resolve("null", "")
      [] payload = "text" -> Resolve("text", payload)
      [] OTHER -> Resolve("parsed", payload)

\* lines 2108-2109: errorData is {} when response.json() rejects
ThrowError(status, payload) ==
    LET hasError == payload = "jsonError"
    IN  IF hasError THEN Reject("error", 0, payload)
        ELSE Reject("HTTP Error", status, "")

\* `await response.json()` or `await response.text()` settles
BodyRead ==
    /\ req.pc \in {"errorBody", "text"}
    /\ req' = [req EXCEPT
                 !.pc = "settled",
                 !.outcome = IF req.pc = "errorBody"
                             THEN ThrowError(req.status, req.payload)
                             ELSE ParseText(req.payload)]
    /\ last' = Step("Other")
    /\ UNCHANGED <<monitorVars, consoleVars, authVars>>

\* the bridge's invoke settles: it returns v or throws e
InvokeSettles(ok, v) ==
    /\ req.pc = "invoke"
    /\ req' = [req EXCEPT
                 !.pc = "settled",
                 !.bridge = IF ok THEN "returned" ELSE "threw",
                 !.payload = v,
                 !.outcome = IF ok THEN Resolve("bridge", v) ELSE Rethrow(v)]
    /\ last' = Step("Other")
    /\ UNCHANGED <<monitorVars, consoleVars, authVars>>

\* the caller has its answer; the next call can be followed
RequestReturns ==
    /\ req.pc = "settled"
    /\ req' = NoRequest
    /\ last' = Step("Other")
    /\ UNCHANGED <<monitorVars, consoleVars, authVars>>

\* a loaded page, AdminAuthGuard's effect done
InitRequest ==
    /\ MonitorIdle
    /\ ConsoleIdle
    /\ tauri \in BOOLEAN
    /\ clock = ClockStart
    /\ lastAuthErrorTime = 0
    /\ signals = <<>>
    /\ sessionKey \in BOOLEAN
    /\ localKey = FALSE
    /\ isAuthenticated = (tauri \/ sessionKey)
    /\ guardEffect \in {"listening", "returned"}
    /\ loginPc = "idle"
    /\ req = NoRequest
    /\ last = Step("Init")

\* the calls followed for their answers
FewArgs == {NoArgs, Obj(<<[key |-> Key_id, value |-> Str(<<"a", "/", "b">>)]>>)}
BridgeAnswers == {"v", "e"}

NextRequest ==
    \/ \E cmd \in {"list_user_tokens", "delete_user_token", UnmappedCommand},
          args \in FewArgs : RequestCall(cmd, args)
    \/ \E status \in Statuses, payload \in Payloads :
            FetchResponds(status, payload)
    \/ FetchRejects
    \/ BodyRead
    \/ \E ok \in BOOLEAN, v \in BridgeAnswers : InvokeSettles(ok, v)
    \/ RequestReturns
    \/ \E d \in {DEBOUNCE_MS, DEBOUNCE_MS + 1} : Tick(d)

SpecRequest == InitRequest /\ [][NextRequest]_vars

\* web mode, every args of at most MaxArgs keys on every mapped command
InitArgs ==
    /\ InitRequest
    /\ tauri = FALSE
    /\ sessionKey = TRUE
    /\ guardEffect = "returned"

NextArgs ==
    \/ /\ req.pc = "idle"
       /\ \E cmd \in MappedCommands, args \in ArgsUpTo(MaxArgs) :
                RequestCall(cmd, args)
    \/ \E status \in {200, 500} : FetchResponds(status, "json")
    \/ BodyRead
    \/ RequestReturns

SpecArgs == InitArgs /\ [][NextArgs]_vars

----------------------------------------------------------------------------
(* Properties *)

LiveListeners == {m \in DOMAIN mounts : mounts[m].listen = "live"}

MaxPageSize == CHOOSE p \in PageSizes : \A q \in PageSizes : q <= p

\* C1: the view never holds two entries with the same id, whatever pushes
\* (repeated ones included), flushes and id-unique pulls have happened.
Thm_C1_UniqueIds == UniqueIds(logs)

\* C1 witness: a flush has just merged a buffer holding an id that the view
\* already held, next to another entry.
Wit_C1_DuplicateFlushed ==
    last.op = "FlushTimer" /\ last.dup /\ Len(logs) >= 2

\* C2: from a successful pull until the next push event, the view is the
\* pulled list and the pending buffer is empty, also across firings of a
\* flush timer armed before the pull and completions of earlier flushes.
Thm_C2_PullWins ==
    pulled[1] => (logs = pulled[2] /\ pendingLogs = <<>>)

\* C2 witness: a flush timer armed before a non-empty pull fires after it,
\* while mounted, and finds nothing to merge.
Wit_C2_TimerAfterPull ==
    pulled[1] /\ pulled[2] # <<>> /\ last.op = "FlushSkip" /\ isMounted

\* C3: the view is sorted by timestamp, newest first, in every state.
Thm_C3_SortedDesc == IsSortedDesc(logs)

\* C3 witness: a flush has just merged entries that arrived out of order.
Wit_C3_Resorted ==
    last.op = "FlushTimer" /\ last.resorted /\ Len(logs) >= 2

\* C4 as stated: the view never holds more than N_max entries.
Cex_C4_AtMostNmax == Len(logs) <= N_max

\* C4 amended: the view holds at most N_max entries after every flush, and
\* never more than the largest selectable page size.
Thm_C4_Capacity ==
    /\ Len(logs) <= (IF N_max >= MaxPageSize THEN N_max ELSE MaxPageSize)
    /\ last.op = "FlushTimer" => Len(logs) <= N_max

\* C4 witness: a flush has just merged more than N_max distinct entries.
Wit_C4_Truncated ==
    last.op = "FlushTimer" /\ last.cut /\ Len(logs) = N_max

\* C7 as stated: at most one 'proxy://request' listener is registered.
Cex_C7_OneListener == Cardinality(LiveListeners) <= 1

\* C8 as stated: once a run of the effect is cleaned up and its listen()
\* has completed, none of its listener, poll interval and flush timer is
\* live.
Cex_C8_TeardownClosesAll ==
    \A m \in DOMAIN mounts :
        (mounts[m].cleaned /\ mounts[m].listen # "opening") =>
            (mounts[m].listen # "live" /\ ~mounts[m].timer /\ ~mounts[m].poll)

\* C9: while torn down, a push event and a firing flush timer change
\* neither the view nor the pending buffer.
Thm_C9_LateEventsIgnored ==
    [][(~isMounted /\ last'.op \in {"Ingest", "FlushTimer", "FlushSkip"})
         => (logs' = logs /\ pendingLogs' = pendingLogs)]_vars

\* C9 witness: a push event has just arrived after teardown while the
\* buffer still holds an entry.
Wit_C9_LatePush ==
    ~isMounted /\ last.op = "Ingest" /\ pendingLogs # <<>>

\* C10 as stated: while torn down, an answer to a call of loadData or to a
\* flush's stats/count fetch changes none of view, counts, pending buffer.
Cex_C10_LateAnswersDiscarded ==
    [][(~isMounted /\ ~isMounted' /\ (pulls' # pulls \/ flushing' < flushing))
         => UNCHANGED <<logs, stats, totalCount, pendingLogs>>]_vars

\* C11 as stated: when a call of loadData fails, the view, the counts and
\* the pending buffer are what they were when that call started (checked for
\* a call that was alone in flight and undisturbed by pushes and flushes).
Cex_C11_FailedPullUntouched ==
    [][(before[1] /\ last'.op = "PullFail") => Shown' = before[2]]_vars

\* C12 as stated, for the request-log feed: once listen() has rejected for
\* the mounted monitor, a poll timer is eventually live (or the monitor is
\* torn down).
Cex_C12_FallsBackToPolling ==
    (Active /\ mounts[Len(mounts)].listen = "failed")
        ~> (~Active \/ \E m \in DOMAIN mounts : mounts[m].poll)

\* C5: any two 'abv-unauthorized' events dispatched on a window are more
\* than 2000 ms apart.
Thm_C5_Debounced ==
    \A j, k \in DOMAIN signals :
        j < k => signals[k] - signals[j] > DEBOUNCE_MS

\* C5 witness: a 401 observed exactly 2000 ms after a dispatched signal has
\* just been suppressed.
Wit_C5_Suppressed ==
    /\ last.op = "Suppressed401"
    /\ signals # <<>>
    /\ clock - signals[Len(signals)] = DEBOUNCE_MS

\* C6 as stated: with the guard's effect run, a dispatched signal leaves no
\* credential in the session store and the guard unauthenticated.
Cex_C6_SignalClearsCredential ==
    (last.op = "Unauthorized401" /\ guardEffect # "pending")
        => (~sessionKey /\ ~isAuthenticated)

\* the parameter names of a path template: what follows a ":" up to the
\* next "/" or the end
TemplateParams(url) ==
    {key \in ArgKeys :
        \E i \in 0..(Len(url) - Len(key) - 1) :
            /\ SubSeq(url, i + 1, i + 1 + Len(key)) = <<":">> \o key
            /\ \/ i + 1 + Len(key) = Len(url)
               \/ url[i + 2 + Len(key)] = "/"}

\* C13 as stated: when args holds every parameter name of the template
\* (next to any other keys), the URL that is fetched holds no ":" and no
\* parameter name is a key of the query string or of the JSON body.
Cex_C13_PathResolved ==
    (/\ req.pc = "fetch"
     /\ TemplateParams(COMMAND_MAPPING[req.cmd].url)
            \subseteq KeysOf(req.given.entries))
    => /\ \A k \in DOMAIN req.url : req.url[k] # ":"
       /\ \A p \in TemplateParams(COMMAND_MAPPING[req.cmd].url) :
            /\ p \notin KeysOf(req.query)
            /\ p \notin KeysOf(req.body.entries)

\* C14 as stated: for GET and DELETE no body is sent, and every arg that
\* was not used for the path, is neither null nor undefined and does not
\* have the value of an arg used for the path, is in the query string as
\* key=String(value).
Cex_C14_QueryHoldsRemainingArgs ==
    (req.pc = "fetch" /\ req.method \in {"GET", "DELETE"})
    => LET es == req.given.entries
           used == {c \in DOMAIN es : es[c].key \notin KeysOf(req.bodyArgs)}
       IN  /\ req.body = NoBody
           /\ \A k \in DOMAIN es :
                (/\ k \notin used
                 /\ es[k].value.kind \notin {"null", "undefined"}
                 /\ \A c \in used : String(es[c].value) # String(es[k].value))
                => \E q \in DOMAIN req.query :
                      req.query[q] = [key |-> es[k].key,
                                      value |-> String(es[k].value)]

\* C15 as stated: for POST and PATCH with args, the body is the value of
\* `request` when the args left after the path are that one key (holding a
\* value), and otherwise the whole object of the args left.
Cex_C15_BodyIsRemainingArgs ==
    (req.pc = "fetch" /\ req.method \in {"POST", "PATCH"}
        /\ req.given.defined)
    => req.body =
         IF /\ KeysOf(req.bodyArgs) = {Key_request}
            /\ ValueOf(req.bodyArgs, Key_request).kind # "undefined"
         THEN JsonOfValue(ValueOf(req.bodyArgs, Key_request))
         ELSE JsonOfObject(req.bodyArgs)

\* C16: in web mode a call with a name the registry does not hold is
\* rejected at once with the 'not supported' error: no fetch, no
\* unauthorized signal, no read of the credential, credential unchanged.
Thm_C16_UnmappedFailsFast ==
    (~tauri /\ req.pc # "idle" /\ req.cmd \notin MappedCommands)
    => /\ req.pc = "settled"
       /\ req.outcome = Reject("notSupported", 0, req.cmd)
       /\ req.fetches = 0
       /\ ~req.signalled
       /\ ~req.keyRead
       /\ sessionKey = req.keyAtCall

\* C16 witness: such a call, made with args while a credential is stored,
\* has been rejected.
Wit_C16_UnmappedRejected ==
    /\ ~tauri
    /\ req.pc = "settled"
    /\ req.cmd = UnmappedCommand
    /\ req.given.defined
    /\ sessionKey

\* C17: a call whose response was a 401 never resolves, whether the signal
\* was dispatched or suppressed; and the signal is dispatched in the step
\* that receives the response, while the call has not settled yet.
Thm_C17_Every401Rejects ==
    [][/\ (req'.pc = "settled" /\ req'.status = 401)
            => req'.outcome.kind = "rejected"
       /\ (req.pc \in {"errorBody", "text"} /\ req.status = 401
            /\ req'.pc # req.pc)
            => (req'.pc = "settled" /\ req'.outcome.kind = "rejected")
       /\ Len(signals') > Len(signals)
            => (/\ req.pc = "fetch"
                /\ req'.pc \notin {"idle", "settled"}
                /\ req'.status = 401
                /\ req'.outcome = NoOutcome)]_vars

\* C17 witness: a 401 inside the debounce window of an earlier signal has
\* been rejected without a signal of its own.
Wit_C17_SuppressedRejected ==
    /\ req.pc = "settled"
    /\ req.status = 401
    /\ ~req.signalled
    /\ signals # <<>>
    /\ req.outcome.kind = "rejected"

\* C18: a call over HTTP that got a response settles as the classification
\* says: null for 204 and for an empty 2xx, the parsed value or the raw text
\* for another 2xx, the payload's error or 'HTTP Error <status>' otherwise.
Thm_C18_Classification ==
    LET Classified(status, payload) ==
            IF status = 204 THEN Resolve("null", "")
            ELSE IF ResponseOk(status)
            THEN CASE payload = "empty" -> Resolve("null", "")
                   [] payload = "text" -> Resolve("text", payload)
                   [] OTHER -> Resolve("parsed", payload)
            ELSE IF payload = "jsonError" THEN Reject("error", 0, payload)
            ELSE Reject("HTTP Error", status, "")
    IN  (req.pc = "settled" /\ req.status # 0)
        => req.outcome = Classified(req.status, req.payload)

\* C18 witness: a 200 whose body is not JSON has resolved to its text.
Wit_C18_PlainText ==
    /\ req.pc = "settled"
    /\ req.status = 200
    /\ req.payload = "text"
    /\ req.outcome.kind = "resolved"

\* C19: whatever the call has done, the caller's args object holds the
\* entries it was passed with.
Thm_C19_ArgsNotMutated ==
    req.pc # "idle" => req.args = req.given

\* C19 witness: a call that used a key for the path, so that its working
\* copy lost it, has failed.
Wit_C19_PathKeyUsed ==
    /\ req.pc = "settled"
    /\ req.fetches = 1
    /\ KeysOf(req.bodyArgs) # KeysOf(req.given.entries)
    /\ req.outcome.kind = "rejected"

\* C20: with the native bridge, a call is one invoke of the same cmd and
\* args, without fetch, credential read or signal, and it settles with what
\* the bridge returned or with the very error the bridge threw.
Thm_C20_BridgeVerbatim ==
    (tauri /\ req.pc # "idle")
    => /\ req.invokes = <<[cmd |-> req.cmd, args |-> req.given]>>
       /\ req.args = req.given
       /\ req.fetches = 0
       /\ ~req.keyRead
       /\ ~req.signalled /\ signals = <<>>
       /\ req.bridge = "threw" => req.outcome = Reject("bridge", 0, req.payload)
       /\ req.bridge = "returned"
            => req.outcome = Resolve("bridge", req.payload)
       /\ req.pc = "settled" => req.bridge # "none"

\* C20 witness: a command the registry does not hold went to the bridge,
\* which threw.
Wit_C20_BridgeThrew ==
    /\ tauri
    /\ req.pc = "settled"
    /\ req.cmd = UnmappedCommand
    /\ req.bridge = "threw"

\* the entries of a list, as a set
EntriesOf(s) == {s[k] : k \in DOMAIN s}

\* C30: a flush evicts oldest-first: every entry of the merged list (the
\* buffer's new entries and the view) that the flush drops has a timestamp
\* less than or equal to that of every entry it keeps, and a flush that
\* merges more than N_max distinct entries keeps exactly N_max.
Thm_C30_OldestEvictedFirst ==
    [][last'.op = "FlushTimer" =>
          LET merged == EntriesOf(FilterNotIn(pendingLogs, IdsOf(logs)))
                            \cup EntriesOf(logs)
              kept == EntriesOf(logs')
          IN  /\ kept \subseteq merged
              /\ \A d \in merged \ kept, k \in kept :
                        d.timestamp <= k.timestamp
              /\ last'.cut => Len(logs') = N_max]_vars

\* C30 witness: a flush has just merged more than N_max distinct entries
\* that were not in timestamp order, and dropped an entry older than the
\* ones it kept.
Wit_C30_OldestDropped ==
    /\ last.op = "FlushTimer" /\ last.cut /\ last.resorted
    /\ Len(logs) = N_max
    /\ \E i \in Ids : \A k \in DOMAIN logs :
            TimestampOf(i) < logs[k].timestamp

\* C22 as stated, for the entry accepted last: when a flush completes while
\* a flush timer is armed (an entry was accepted after that flush merged
\* the buffer, and no pull has emptied the buffer since), that entry is
\* still in the pending buffer or in the view.
Cex_C22_NoPushLost ==
    [][(/\ flushing' < flushing
        /\ isMounted
        /\ pendingLogs # <<>>
        /\ \E m \in DOMAIN mounts : mounts[m].timer)
         => pendingLogs[Len(pendingLogs)].id
                \in IdsOf(pendingLogs') \cup IdsOf(logs')]_vars

\* C29 as stated: when handleLogin settles, a credential is in the session
\* store only if the validation request was answered with a success status.
Cex_C29_KeyOnlyAfterSuccess ==
    [][(loginPc = "fetch" /\ loginPc' = "idle")
         => (sessionKey' => last'.op = "LoginOk")]_vars

\* C29 amended: when handleLogin settles, a credential is in the session
\* store only if the validation request was answered with a status other
\* than 401 (a success or any other status); after a 401 or a network
\* failure the session store holds none.
Thm_C29_KeyOnlyUnlessRejected ==
    [][(loginPc = "fetch" /\ loginPc' = "idle")
         => (sessionKey' => last'.op \in {"LoginOk", "LoginOther"})]_vars

\* C29 witness: the validation request has just been answered with a
\* non-success status other than 401 and the submitted key is kept.
Wit_C29_KeptAfterOtherStatus ==
    last.op = "LoginOther" /\ sessionKey /\ loginPc = "idle"

\* C23 as stated: when the only call of loadData in flight ends after its
\* history answer, so that no pull is in flight any more, the view has
\* been pulled with the filter that is selected.
Cex_C23_PullForSelectedFilter ==
    [][(/\ PullCount = 1
        /\ pulls' = NoPulls
        /\ \E call \in Calls : pulls[<<"stats", call>>] = 1)
         => origin'.view = filter']_vars

\* C26 as stated: from a successful clear until the next push event or
\* the next applied pull answer, the view is empty.
Cex_C26_ClearedStaysEmpty == origin.cleared => logs = <<>>

\* C27 as stated, for page size and filter: a call of loadData started by
\* the poll timer (neither the mount effect nor a page-size or filter
\* change) works with the page size and the filter the UI shows.
Cex_C27_PollPullsWhatIsShown ==
    [][(/\ mounts' = mounts
        /\ pageSize' = pageSize
        /\ filter' = filter
        /\ \E call \in Calls :
                pulls'[<<"config", call>>] > pulls[<<"config", call>>])
         => pulls'[<<"config", Call(pageSize, filter)>>]
                > pulls[<<"config", Call(pageSize, filter)>>]]_vars

\* C28 as stated: when the count refresh of a flush replaces the total
\* count, the count it puts is one requested with the selected filter.
Cex_C28_FlushCountForFilter ==
    [][(flushing' < flushing /\ origin'.count # origin.count)
         => origin'.count = filter']_vars


\* C21: for the request-log feed of ProxyMonitor and for the debug-log feed
\* of useDebugConsole, a registered native event listener and a running
\* poll timer never exist in the same state.
Thm_C21_OneMechanismPerFeed ==
    /\ ~\E m, n \in DOMAIN mounts :
            mounts[m].listen \in {"opening", "live"} /\ mounts[n].poll
    /\ ~(listeners > 0 /\ timers > 0)
    /\ ~(unlistenFn /\ pollInterval)

\* the debug feed is enabled, every call of the store has settled, and the
\* listener is the only mechanism that is live
Wit_C21_ListenerAlone ==
    /\ isEnabled
    /\ listeners > 0
    /\ timers = 0
    /\ CallCount = 0

\* C24: whatever the interleaving of enable(), checkEnabled() and
\* disable(), at most one 'log-event' listener is registered, so an emitted
\* event is appended to the console's logs at most once.
Cex_C24_AtMostOneListener == listeners <= 1

\* C25: when disable() settles, after success or failure of
\* disable_debug_console, no 'log-event' listener and no poll timer of the
\* debug feed is live.
Cex_C25_DisableCancels ==
    [][(calls'[<<"disable", "cmd">>] < calls[<<"disable", "cmd">>])
            => (listeners' = 0 /\ timers' = 0)]_vars
====
